---------------------------- MODULE Spec2Model ----------------------------
(***************************************************************************)
(* A model of the Deontological Firewall reference kernel:                 *)
(*   dfw_code/dfw_kernel.py   violation_score, choose_action               *)
(*   dfw_code/safe_mode.py    SafeModeState, enter_safe_mode,              *)
(*                            exit_safe_mode                               *)
(* Each component has its own specification over the shared variables; a   *)
(* specification leaves the variables of the other components untouched.   *)
(***************************************************************************)
EXTENDS Integers, Sequences, FiniteSets

VARIABLES
    candidate_actions,  \* choose_action's argument: a list of Action
    safe_state,         \* choose_action's argument: a SafeState
    scored,             \* choose_action's local list of {action, score}
    outcome,            \* how the last choose_action call ended
    sm,                 \* the SafeModeState object shared by all callers
    console,            \* what enter_safe_mode/exit_safe_mode wrote to stdout
    call,               \* per thread: the call it makes on sm
    pc,                 \* per thread: the line of that call it is at
    reported,           \* veto_metadata's argument: a metadata dict
    atl,                \* the last veto_metadata call and how it ended
    risks,              \* the long-horizon checks' argument: a trajectory
    thresholds,         \* the long-horizon checks' gamma1, gamma2 and theta
    horizon,            \* the last long-horizon check called and its result
    confidences,        \* aggregate_ensemble_confidence's argument
    aggregate,          \* the last aggregate_ensemble_confidence call
    meta_dict,          \* hfl_feasibility_check's argument
    decision            \* the last hfl_feasibility_check call and how it ended

kernel_vars == <<candidate_actions, safe_state, scored, outcome>>
safe_mode_vars == <<sm, console>>
thread_vars == <<call, pc>>
atl_vars == <<reported, atl>>
horizon_vars == <<risks, thresholds, horizon>>

cpm_vars == <<confidences, aggregate>>
hfl_vars == <<meta_dict, decision>>

vars == <<candidate_actions, safe_state, scored, outcome, sm, console, call, pc,
          reported, atl, risks, thresholds, horizon, confidences, aggregate,
          meta_dict, decision>>

(***************************************************************************)
(* What the variables of a component hold while another component runs.    *)
(***************************************************************************)
NoCallYet == [fn |-> "none"]

AtlIdle ==
    /\ reported = <<>>
    /\ atl = NoCallYet

HorizonIdle ==
    /\ risks = <<>>
    /\ thresholds = [gamma1 |-> 0, gamma2 |-> 0, theta |-> 0]
    /\ horizon = NoCallYet

CpmIdle ==
    /\ confidences = <<>>
    /\ aggregate = NoCallYet

HflIdle ==
    /\ meta_dict = <<>>
    /\ decision = NoCallYet

(***************************************************************************)
(* Bounds of the model.                                                    *)
(***************************************************************************)
MaxCands == 2
MaxCalls == 3
NumThreads == 2

(***************************************************************************)
(* dfw_kernel.py: priority weights.                                        *)
(***************************************************************************)
P1_WEIGHT == 10^6
P2_WEIGHT == 10^3
P3_WEIGHT == 10

(***************************************************************************)
(* dfw_kernel.py: Action and SafeState.  The fields description and tags   *)
(* are read by no function of the kernel and are left out of the record.   *)
(***************************************************************************)
Names == {"DoNothing", "Rescue", "RescueHuman"}

Action ==
    [name : Names,
     causes_irreversible_harm : BOOLEAN,
     violates_truth_lock : BOOLEAN,
     violates_auth_lock : BOOLEAN,
     violates_resource_bounds : BOOLEAN,
     is_rescue : BOOLEAN]

SafeState == [imminent_harm : BOOLEAN]

(***************************************************************************)
(* Python compares str values by code point, left to right; a proper       *)
(* prefix is smaller.  CodePoints gives the code points of the names used. *)
(***************************************************************************)
CodePoints(name) ==
    CASE name = "DoNothing"   -> <<68, 111, 78, 111, 116, 104, 105, 110, 103>>
      [] name = "Rescue"      -> <<82, 101, 115, 99, 117, 101>>
      [] name = "RescueHuman" -> <<82, 101, 115, 99, 117, 101, 72, 117, 109, 97, 110>>

RECURSIVE SeqLess(_, _)
SeqLess(s, t) ==
    IF t = <<>> THEN FALSE
    ELSE IF s = <<>> THEN TRUE
    ELSE IF Head(s) # Head(t) THEN Head(s) < Head(t)
    ELSE SeqLess(Tail(s), Tail(t))

StrLess(a, b) == SeqLess(CodePoints(a), CodePoints(b))

(***************************************************************************)
(* Faulty variants of violation_score, each a slip the claims must detect. *)
(***************************************************************************)
\* irreversible harm weighted as a tier-2 violation
violation_score_HarmAsP2(action, state) ==
    (IF action.causes_irreversible_harm THEN P2_WEIGHT ELSE 0)
    + (IF action.violates_truth_lock \/ action.violates_auth_lock THEN P2_WEIGHT ELSE 0)
    + (IF action.violates_resource_bounds THEN P3_WEIGHT ELSE 0)
    + (IF state.imminent_harm /\ ~action.is_rescue THEN P1_WEIGHT ELSE 0)

\* the omission penalty capped: not added when irreversible harm already counted
violation_score_OmissionCapped(action, state) ==
    (IF action.causes_irreversible_harm
        \/ (state.imminent_harm /\ ~action.is_rescue) THEN P1_WEIGHT ELSE 0)
    + (IF action.violates_truth_lock \/ action.violates_auth_lock THEN P2_WEIGHT ELSE 0)
    + (IF action.violates_resource_bounds THEN P3_WEIGHT ELSE 0)

\* the tier-2 weight added once per violated lock
violation_score_P2PerFlag(action, state) ==
    (IF action.causes_irreversible_harm THEN P1_WEIGHT ELSE 0)
    + (IF action.violates_truth_lock THEN P2_WEIGHT ELSE 0)
    + (IF action.violates_auth_lock THEN P2_WEIGHT ELSE 0)
    + (IF action.violates_resource_bounds THEN P3_WEIGHT ELSE 0)
    + (IF state.imminent_harm /\ ~action.is_rescue THEN P1_WEIGHT ELSE 0)

\* no omission penalty
violation_score_NoOmission(action, state) ==
    (IF action.causes_irreversible_harm THEN P1_WEIGHT ELSE 0)
    + (IF action.violates_truth_lock \/ action.violates_auth_lock THEN P2_WEIGHT ELSE 0)
    + (IF action.violates_resource_bounds THEN P3_WEIGHT ELSE 0)

(***************************************************************************)
(* dfw_kernel.py: violation_score.                                         *)
(***************************************************************************)
violation_score(action, state) ==
    LET s0 == 0
        s1 == IF action.causes_irreversible_harm THEN s0 + P1_WEIGHT ELSE s0
        s2 == IF action.violates_truth_lock \/ action.violates_auth_lock
              THEN s1 + P2_WEIGHT ELSE s1
        s3 == IF action.violates_resource_bounds THEN s2 + P3_WEIGHT ELSE s2
        s4 == IF state.imminent_harm /\ ~action.is_rescue
              THEN s3 + P1_WEIGHT ELSE s3
    IN  s4

(***************************************************************************)
(* dfw_kernel.py: choose_action.                                           *)
(*   ScoreAll   the loop that fills `scored`                               *)
(*   KeyLess    the order of the sort key (score, name): tuple comparison  *)
(*   SortScored list.sort(key=...): a stable sort, so entries with equal   *)
(*              keys keep the order of the candidate list                  *)
(***************************************************************************)
ScoreAll(cands, state) ==
    [i \in 1..Len(cands) |->
        [action |-> cands[i], score |-> violation_score(cands[i], state)]]

\* faulty variant: the sort key is the score alone, without the name
KeyLess_ScoreOnly(x, y) == x.score < y.score

KeyLess(x, y) ==
    \/ x.score < y.score
    \/ x.score = y.score /\ StrLess(x.action.name, y.action.name)

RECURSIVE InsertStable(_, _)
InsertStable(x, sorted) ==
    IF sorted = <<>> THEN <<x>>
    ELSE IF KeyLess(x, Head(sorted)) THEN <<x>> \o sorted
    ELSE <<Head(sorted)>> \o InsertStable(x, Tail(sorted))

RECURSIVE SortScored(_)
SortScored(list) ==
    IF list = <<>> THEN <<>>
    ELSE InsertStable(list[Len(list)], SortScored(SubSeq(list, 1, Len(list) - 1)))

NotCalled == [kind |-> "none"]
Raised(exc) == [kind |-> "raise", exc |-> exc]
Returned(a) == [kind |-> "return", action |-> a]

\* faulty variant: an empty list yields a default action instead of an error
choose_action_DefaultOnEmpty(cands, state) ==
    IF cands = <<>>
    THEN [scored |-> <<>>,
          outcome |-> Returned([name |-> "DoNothing",
                                causes_irreversible_harm |-> FALSE,
                                violates_truth_lock |-> FALSE,
                                violates_auth_lock |-> FALSE,
                                violates_resource_bounds |-> FALSE,
                                is_rescue |-> FALSE])]
    ELSE LET sorted == SortScored(ScoreAll(cands, state))
         IN  [scored |-> sorted, outcome |-> Returned(sorted[1].action)]

choose_action(cands, state) ==
    IF cands = <<>>
    THEN [scored |-> <<>>, outcome |-> Raised("ValueError")]
    ELSE LET sorted == SortScored(ScoreAll(cands, state))
         IN  [scored |-> sorted, outcome |-> Returned(sorted[1].action)]

KernelIdle ==
    /\ scored = <<>>
    /\ outcome = NotCalled

(***************************************************************************)
(* safe_mode.py: SafeModeState, enter_safe_mode and exit_safe_mode.  Each  *)
(* assignment to a field of the state is a definition of its own, so that  *)
(* a call can be taken as a whole (one caller) or line by line (threads).  *)
(* A printed line is a record: which message, and the reason it formats.   *)
(***************************************************************************)
Reasons == {"", "HFL metadata inconsistency + CPM disagreement", "metadata veto"}

SafeModeState == [active : BOOLEAN, reason : Reasons]

NewSafeModeState == [active |-> FALSE, reason |-> ""]

EnteredLine(reason) == [line |-> "ENTERED", reason |-> reason]
RefusedLine == [line |-> "EXIT_NOT_AUTHORISED", reason |-> ""]
ExitedLine == [line |-> "EXITED", reason |-> ""]

\* print(text) makes two writes to stdout: the text, then the line end
Newline == [line |-> "\n", reason |-> ""]
stdout_print(text) == <<text, Newline>>

enter_write_active(state) == [state EXCEPT !.active = TRUE]

enter_write_reason(state, reason) == [state EXCEPT !.reason = reason]

\* faulty variant: a state already in Safe Mode keeps its first reason
enter_safe_mode_KeepFirst(state, reason) ==
    IF state.active THEN state ELSE [active |-> TRUE, reason |-> reason]

enter_safe_mode(state, reason) ==
    enter_write_reason(enter_write_active(state), reason)

\* faulty variant: the authorisation is not looked at
exit_refused_Never(authorised) == FALSE

exit_refused(authorised) == ~authorised

exit_write_active(state) == [state EXCEPT !.active = FALSE]

exit_write_reason(state) == [state EXCEPT !.reason = ""]

\* faulty variant: a refused exit still clears the reason
exit_safe_mode_ClearsReason(state, authorised) ==
    IF ~authorised
    THEN [state EXCEPT !.reason = ""]
    ELSE [active |-> FALSE, reason |-> ""]

exit_safe_mode(state, authorised) ==
    IF exit_refused(authorised)
    THEN state
    ELSE exit_write_reason(exit_write_active(state))

exit_print(authorised) ==
    IF exit_refused(authorised) THEN RefusedLine ELSE ExitedLine

SafeModeIdle ==
    /\ sm = NewSafeModeState
    /\ console = <<>>

(***************************************************************************)
(* One caller: calls of enter_safe_mode and exit_safe_mode one after the   *)
(* other on one SafeModeState, as demo_safe_mode makes them.               *)
(***************************************************************************)
Threads == 1..NumThreads

NoCall == [op |-> "none", reason |-> "", authorised |-> FALSE]
EnterCall(reason) == [op |-> "enter", reason |-> reason, authorised |-> FALSE]
ExitCall(authorised) == [op |-> "exit", reason |-> "", authorised |-> authorised]
Calls == {EnterCall(r) : r \in Reasons} \cup {ExitCall(a) : a \in BOOLEAN}

ThreadsIdle ==
    /\ call = [t \in Threads |-> NoCall]
    /\ pc = [t \in Threads |-> "done"]

SafeModeInit ==
    /\ SafeModeIdle
    /\ ThreadsIdle
    /\ KernelIdle
    /\ AtlIdle
    /\ HorizonIdle
    /\ CpmIdle
    /\ HflIdle
    /\ candidate_actions = <<>>
    /\ safe_state = [imminent_harm |-> FALSE]

EnterSafeMode(reason) ==
    /\ Len(console) < 2 * MaxCalls
    /\ sm' = enter_safe_mode(sm, reason)
    /\ console' = console \o stdout_print(EnteredLine(reason))
    /\ UNCHANGED <<kernel_vars, atl_vars, horizon_vars, cpm_vars, hfl_vars, thread_vars>>

ExitSafeMode(authorised) ==
    /\ Len(console) < 2 * MaxCalls
    /\ sm' = exit_safe_mode(sm, authorised)
    /\ console' = console \o stdout_print(exit_print(authorised))
    /\ UNCHANGED <<kernel_vars, atl_vars, horizon_vars, cpm_vars, hfl_vars, thread_vars>>

SafeModeNext ==
    \/ \E reason \in Reasons : EnterSafeMode(reason)
    \/ \E authorised \in BOOLEAN : ExitSafeMode(authorised)

SafeModeSpec == SafeModeInit /\ [][SafeModeNext]_vars

(***************************************************************************)
(* Several callers: each thread makes one call on the shared state.  The   *)
(* functions take no lock, so a thread switch can fall between any two     *)
(* lines of a call; each store to a field is one step.  A print is two     *)
(* steps, the write of the text and the write of the line end: on an       *)
(* unbuffered stdout (python -u) each write releases the interpreter lock  *)
(* and another thread can write between them; on a buffered stdout the     *)
(* two reach the console together, which is the schedule with no step      *)
(* between them.  The state the threads start from is any state a          *)
(* sequence of calls leaves.                                               *)
(***************************************************************************)
ReachableSafeModeStates ==
    {NewSafeModeState} \cup {[active |-> TRUE, reason |-> r] : r \in Reasons}

FirstLine(c) == IF c.op = "enter" THEN "enter_45" ELSE "exit_58"

RaceInit ==
    /\ sm \in ReachableSafeModeStates
    /\ console = <<>>
    /\ call \in [Threads -> Calls]
    /\ pc = [t \in Threads |-> FirstLine(call[t])]
    /\ KernelIdle
    /\ AtlIdle
    /\ HorizonIdle
    /\ CpmIdle
    /\ HflIdle
    /\ candidate_actions = <<>>
    /\ safe_state = [imminent_harm |-> FALSE]

EnterLine45(t) ==
    /\ pc[t] = "enter_45"
    /\ sm' = enter_write_active(sm)
    /\ pc' = [pc EXCEPT ![t] = "enter_46"]
    /\ UNCHANGED <<kernel_vars, atl_vars, horizon_vars, cpm_vars, hfl_vars, console, call>>

EnterLine46(t) ==
    /\ pc[t] = "enter_46"
    /\ sm' = enter_write_reason(sm, call[t].reason)
    /\ pc' = [pc EXCEPT ![t] = "enter_47"]
    /\ UNCHANGED <<kernel_vars, atl_vars, horizon_vars, cpm_vars, hfl_vars, console, call>>

\* line 47, the write of the text
EnterLine47(t) ==
    /\ pc[t] = "enter_47"
    /\ console' = Append(console, EnteredLine(call[t].reason))
    /\ pc' = [pc EXCEPT ![t] = "enter_47_end"]
    /\ UNCHANGED <<kernel_vars, atl_vars, horizon_vars, cpm_vars, hfl_vars, sm, call>>

\* line 47, the write of the line end
EnterLine47End(t) ==
    /\ pc[t] = "enter_47_end"
    /\ console' = Append(console, Newline)
    /\ pc' = [pc EXCEPT ![t] = "done"]
    /\ UNCHANGED <<kernel_vars, atl_vars, horizon_vars, cpm_vars, hfl_vars, sm, call>>

\* the test of line 58 and the write of the text of line 59 or 61
ExitLine58(t) ==
    /\ pc[t] = "exit_58"
    /\ console' = Append(console, exit_print(call[t].authorised))
    /\ pc' = [pc EXCEPT ![t] =
                IF exit_refused(call[t].authorised)
                THEN "exit_59_end" ELSE "exit_61_end"]
    /\ UNCHANGED <<kernel_vars, atl_vars, horizon_vars, cpm_vars, hfl_vars, sm, call>>

\* line 59, the write of the line end, and the return of line 60
ExitLine59End(t) ==
    /\ pc[t] = "exit_59_end"
    /\ console' = Append(console, Newline)
    /\ pc' = [pc EXCEPT ![t] = "done"]
    /\ UNCHANGED <<kernel_vars, atl_vars, horizon_vars, cpm_vars, hfl_vars, sm, call>>

\* line 61, the write of the line end
ExitLine61End(t) ==
    /\ pc[t] = "exit_61_end"
    /\ console' = Append(console, Newline)
    /\ pc' = [pc EXCEPT ![t] = "exit_62"]
    /\ UNCHANGED <<kernel_vars, atl_vars, horizon_vars, cpm_vars, hfl_vars, sm, call>>

ExitLine62(t) ==
    /\ pc[t] = "exit_62"
    /\ sm' = exit_write_active(sm)
    /\ pc' = [pc EXCEPT ![t] = "exit_63"]
    /\ UNCHANGED <<kernel_vars, atl_vars, horizon_vars, cpm_vars, hfl_vars, console, call>>

ExitLine63(t) ==
    /\ pc[t] = "exit_63"
    /\ sm' = exit_write_reason(sm)
    /\ pc' = [pc EXCEPT ![t] = "done"]
    /\ UNCHANGED <<kernel_vars, atl_vars, horizon_vars, cpm_vars, hfl_vars, console, call>>

RaceNext ==
    \E t \in Threads :
        \/ EnterLine45(t)
        \/ EnterLine46(t)
        \/ EnterLine47(t)
        \/ EnterLine47End(t)
        \/ ExitLine58(t)
        \/ ExitLine59End(t)
        \/ ExitLine61End(t)
        \/ ExitLine62(t)
        \/ ExitLine63(t)

RaceSpec == RaceInit /\ [][RaceNext]_vars

(***************************************************************************)
(* The kernel's specification: the inputs are drawn in Init, a call of     *)
(* choose_action is one step, and the call may be repeated.                *)
(***************************************************************************)
CandidateLists == UNION {[1..n -> Action] : n \in 0..MaxCands}

KernelInit ==
    /\ candidate_actions \in CandidateLists
    /\ safe_state \in SafeState
    /\ KernelIdle
    /\ AtlIdle
    /\ HorizonIdle
    /\ CpmIdle
    /\ HflIdle
    /\ SafeModeIdle
    /\ ThreadsIdle

ChooseAction ==
    LET r == choose_action(candidate_actions, safe_state)
    IN  /\ scored' = r.scored
        /\ outcome' = r.outcome
        /\ UNCHANGED <<candidate_actions, safe_state>>
        /\ UNCHANGED <<safe_mode_vars, thread_vars, atl_vars, horizon_vars, cpm_vars, hfl_vars>>

KernelNext == ChooseAction

KernelSpec == KernelInit /\ [][KernelNext]_vars

(***************************************************************************)
(* dfw_v6_master_metadata.py and dfw_v6_master_demo.py: veto_metadata.     *)
(*                                                                         *)
(* A value of the metadata dict carries its Python type: t is the type, n  *)
(* the number of a bool, int or float, s the text of a str.  Times are     *)
(* whole seconds and confidences are in hundredths, so that every number   *)
(* is an integer.  A str is taken apart into its characters by Chars where *)
(* the code looks inside it (lower(), `in`).                               *)
(***************************************************************************)
PyBool(b) == [t |-> "bool", n |-> IF b THEN 1 ELSE 0, s |-> ""]
PyInt(n) == [t |-> "int", n |-> n, s |-> ""]
PyFloat(n) == [t |-> "float", n |-> n, s |-> ""]
PyStr(s) == [t |-> "str", n |-> 0, s |-> s]
PyNone == [t |-> "NoneType", n |-> 0, s |-> ""]
\* float("nan"), and the int 10 ** 400
PyNaN == [t |-> "float", n |-> 0, s |-> "nan"]
PyHuge == [t |-> "int", n |-> 0, s |-> "10 ** 400"]

Chars(s) ==
    CASE s = "" -> <<>>
      [] s = "Target reached." -> <<"T", "a", "r", "g", "e", "t", " ", "r", "e", "a", "c", "h", "e", "d", ".">>
      [] s = "No observable physical change." -> <<"N", "o", " ", "o", "b", "s", "e", "r", "v", "a", "b", "l", "e", " ", "p", "h", "y", "s", "i", "c", "a", "l", " ", "c", "h", "a", "n", "g", "e", ".">>
      [] s = "no observable change" -> <<"n", "o", " ", "o", "b", "s", "e", "r", "v", "a", "b", "l", "e", " ", "c", "h", "a", "n", "g", "e">>
      [] s = "no observable physical change" -> <<"n", "o", " ", "o", "b", "s", "e", "r", "v", "a", "b", "l", "e", " ", "p", "h", "y", "s", "i", "c", "a", "l", " ", "c", "h", "a", "n", "g", "e">>
      [] s = "safe_container" -> <<"s", "a", "f", "e", "_", "c", "o", "n", "t", "a", "i", "n", "e", "r">>
      [] s = "Life Support" -> <<"L", "i", "f", "e", " ", "S", "u", "p", "p", "o", "r", "t">>
      [] s = "life support" -> <<"l", "i", "f", "e", " ", "s", "u", "p", "p", "o", "r", "t">>
      [] s = "Critical System 7 access path" -> <<"C", "r", "i", "t", "i", "c", "a", "l", " ", "S", "y", "s", "t", "e", "m", " ", "7", " ", "a", "c", "c", "e", "s", "s", " ", "p", "a", "t", "h">>
      [] s = "None" -> <<"N", "o", "n", "e">>
      [] s = "Critical System 7" -> <<"C", "r", "i", "t", "i", "c", "a", "l", " ", "S", "y", "s", "t", "e", "m", " ", "7">>
      [] s = "Global Network Link" -> <<"G", "l", "o", "b", "a", "l", " ", "N", "e", "t", "w", "o", "r", "k", " ", "L", "i", "n", "k">>
      [] s = "Human Control Panel" -> <<"H", "u", "m", "a", "n", " ", "C", "o", "n", "t", "r", "o", "l", " ", "P", "a", "n", "e", "l">>

UpperCase == <<"A", "B", "C", "D", "E", "F", "G", "H", "I", "J", "K", "L", "M",
               "N", "O", "P", "Q", "R", "S", "T", "U", "V", "W", "X", "Y", "Z">>
LowerCase == <<"a", "b", "c", "d", "e", "f", "g", "h", "i", "j", "k", "l", "m",
               "n", "o", "p", "q", "r", "s", "t", "u", "v", "w", "x", "y", "z">>

\* str.lower()
Lower(chars) ==
    [i \in 1..Len(chars) |->
        IF \E k \in 1..26 : UpperCase[k] = chars[i]
        THEN LowerCase[CHOOSE k \in 1..26 : UpperCase[k] = chars[i]]
        ELSE chars[i]]

\* needle in hay, for two str
Contains(hay, needle) ==
    \E i \in 0..(Len(hay) - Len(needle)) :
        SubSeq(hay, i + 1, i + Len(needle)) = needle

\* dict.get(key, default)
Get(d, key, default) == IF key \in DOMAIN d THEN d[key] ELSE default

\* the truth value of a value in `x and y`, `x or y`, `not x`; nan and
\* 10 ** 400 are not zero
Truthy(v) ==
    CASE v = PyNaN \/ v = PyHuge -> TRUE
      [] v.t = "bool" -> v.n = 1
      [] v.t \in {"int", "float"} -> v.n # 0
      [] v.t = "str" -> v.s # ""
      [] v.t = "NoneType" -> FALSE

\* int(v): the number, or the exception raised.  No str of the model is a
\* numeral, and every float of the model but nan is a whole number.
\* int(nan) raises ValueError; int(10 ** 400) is 10 ** 400, which `huge`
\* tells from the numbers n can hold.
IntOf(v) ==
    CASE v = PyNaN -> [exc |-> "ValueError", n |-> 0, huge |-> FALSE]
      [] v = PyHuge -> [exc |-> "", n |-> 0, huge |-> TRUE]
      [] v.t \in {"bool", "int", "float"} -> [exc |-> "", n |-> v.n, huge |-> FALSE]
      [] v.t = "str" -> [exc |-> "ValueError", n |-> 0, huge |-> FALSE]
      [] v.t = "NoneType" -> [exc |-> "TypeError", n |-> 0, huge |-> FALSE]

\* a < b for an int a that int() gave and a number b of the model
IntLess(a, b) == ~a.huge /\ a.n < b

\* float(v): a float nan is not a number, and an int too large for a double
\* makes float() raise OverflowError.
FloatOf(v) ==
    CASE v = PyNaN -> [exc |-> "", n |-> 0, nan |-> TRUE]
      [] v = PyHuge -> [exc |-> "OverflowError", n |-> 0, nan |-> FALSE]
      [] v.t \in {"bool", "int", "float"} -> [exc |-> "", n |-> v.n, nan |-> FALSE]
      [] v.t = "str" -> [exc |-> "ValueError", n |-> 0, nan |-> FALSE]
      [] v.t = "NoneType" -> [exc |-> "TypeError", n |-> 0, nan |-> FALSE]

\* str(v), for the types the model passes to it
StrOf(v) ==
    CASE v.t = "str" -> v.s
      [] v.t = "NoneType" -> "None"

CRITICAL_ASSETS ==
    <<"Critical System 7", "Global Network Link", "Human Control Panel",
      "Life Support">>

\* the demo list with an asset in another letter case added
CRITICAL_ASSETS_demo_LowerCase ==
    <<"Critical System 7", "Critical System 7 access path",
      "Global Network Link", "Human Control Panel", "Life Support",
      "life support">>

CRITICAL_ASSETS_demo ==
    <<"Critical System 7", "Critical System 7 access path",
      "Global Network Link", "Human Control Panel", "Life Support">>

\* MAX_TIME_BY_ACTION.get(action, 9999.0), in seconds
MaxTimeFor(action) ==
    CASE action = PyStr("MOVE") -> 100
      [] action = PyStr("ACQUIRE") -> 60
      [] action = PyStr("COMMUNICATE") -> 10
      [] action = PyStr("ANALYSIS") -> 1200
      [] OTHER -> 9999

is_critical_target(target) ==
    \E i \in DOMAIN CRITICAL_ASSETS :
        Contains(Chars(target), Chars(CRITICAL_ASSETS[i]))

is_critical_target_demo(target) ==
    \E i \in DOMAIN CRITICAL_ASSETS_demo :
        Contains(Chars(target), Chars(CRITICAL_ASSETS_demo[i]))

(***************************************************************************)
(* The messages appended to `reasons`.  A message is its fixed text and    *)
(* the values its f-string formats; "; ".join puts the separator between   *)
(* the messages.                                                           *)
(***************************************************************************)
Msg(text, action, exec_time, time_max, target) ==
    [text |-> text, action |-> action, exec_time |-> exec_time,
     time_max |-> time_max, target |-> target]

Text(text) == Msg(text, "", 0, 0, "")

Veto1Msg == Text("Veto 1: P1=True with 'no observable physical change' text.")
Veto2Msg == Text("Veto 2: High P1/P2 risk with suspiciously low cost.")
Veto2Msg_demo == Text("Veto 2: High P1/P2 risk with suspiciously low resource cost.")
Veto3Msg(action, exec_time, time_max) ==
    Msg("Veto 3: Exec time {exec_time}s exceeds invariant for {action} (max {time_max}s).",
        action, exec_time, time_max, "")
Veto4Msg(target) ==
    Msg("Veto 4: Critical asset '{target}' targeted with P1=False in metadata.",
        "", 0, 0, target)
NoVetoMsg == Text("No ATL invariant violated.")
Separator == Text("; ")

RECURSIVE Join(_)
Join(reasons) ==
    IF Len(reasons) <= 1 THEN reasons
    ELSE <<Head(reasons), Separator>> \o Join(Tail(reasons))

\* min(1.0, confidence_sum): the sum in place of the mean
FinalConfidence_Sum(sum, count) == IF sum >= 100 THEN 100 ELSE sum

\* round(min(1.0, confidence_sum / len(reasons)), 2), in hundredths: the
\* quotient sum / count capped at 100 and rounded to the nearest whole
\* hundredth, a tie going to the even one.  For every set of rules that can
\* trigger together this is what the double arithmetic of the code gives.
FinalConfidence(sum, count) ==
    IF sum >= 100 * count THEN 100
    ELSE LET q == sum \div count
             rem == sum % count
         IN  IF 2 * rem > count THEN q + 1
             ELSE IF 2 * rem < count THEN q
             ELSE IF q % 2 = 0 THEN q ELSE q + 1

VetoRaised(exc) == [kind |-> "raise", exc |-> exc]

VetoReturned(veto, reason, confidence) ==
    [kind |-> "return", veto |-> veto, reason |-> reason, confidence |-> confidence]

\* the `reasons` list and confidence_sum, and a rule adding to both
NoReasons == [reasons |-> <<>>, confidence_sum |-> 0]

Trigger(acc, msg, confidence) ==
    [reasons |-> Append(acc.reasons, msg),
     confidence_sum |-> acc.confidence_sum + confidence]

\* the aggregate decision that ends veto_metadata
Aggregate(acc) ==
    IF acc.reasons # <<>>
    THEN VetoReturned(TRUE, Join(acc.reasons),
                      FinalConfidence(acc.confidence_sum, Len(acc.reasons)))
    ELSE VetoReturned(FALSE, <<NoVetoMsg>>, 0)

veto_metadata(rep) ==
    LET p1 == Truthy(Get(rep, "predicted_p1_violation", PyBool(FALSE)))
        p2 == Truthy(Get(rep, "predicted_p2_violation", PyBool(FALSE)))
        consequences ==
            Lower(Chars(StrOf(Get(rep, "estimated_consequences", PyStr("")))))
        acc1 ==
            IF p1 /\ Contains(consequences, Chars("no observable physical change"))
            THEN Trigger(NoReasons, Veto1Msg, 95)
            ELSE NoReasons
        cost == IntOf(Get(rep, "resource_cost_units", PyInt(0)))
    IN  IF cost.exc # "" THEN VetoRaised(cost.exc)
        ELSE
        LET acc2 ==
                IF (p1 \/ p2) /\ IntLess(cost, 10)
                THEN Trigger(acc1, Veto2Msg, 50)
                ELSE acc1
            action == Get(rep, "action_type", PyStr("UNKNOWN"))
            time_max == MaxTimeFor(action)
            exec_time == FloatOf(Get(rep, "execution_time_seconds", PyFloat(0)))
        IN  IF exec_time.exc # "" THEN VetoRaised(exec_time.exc)
            ELSE
            LET acc3 ==
                    IF ~exec_time.nan /\ exec_time.n > time_max
                    THEN Trigger(acc2, Veto3Msg(action.s, exec_time.n, time_max), 85)
                    ELSE acc2
                target == Get(rep, "target_object", PyStr(""))
            IN  \* `asset in target` raises TypeError unless target is a str
                IF target.t # "str" THEN VetoRaised("TypeError")
                ELSE
                LET acc4 ==
                        IF is_critical_target(target.s) /\ ~p1
                        THEN Trigger(acc3, Veto4Msg(target.s), 90)
                        ELSE acc3
                IN  Aggregate(acc4)

veto_metadata_demo(rep) ==
    LET p1 == Truthy(Get(rep, "predicted_p1_violation", PyBool(FALSE)))
        p2 == Truthy(Get(rep, "predicted_p2_violation", PyBool(FALSE)))
        consequences ==
            Lower(Chars(StrOf(Get(rep, "estimated_consequences", PyStr("")))))
        acc1 ==
            IF p1 /\ Contains(consequences, Chars("no observable physical change"))
            THEN Trigger(NoReasons, Veto1Msg, 95)
            ELSE NoReasons
        cost == IntOf(Get(rep, "resource_cost_units", PyInt(0)))
    IN  IF cost.exc # "" THEN VetoRaised(cost.exc)
        ELSE
        LET acc2 ==
                IF (p1 \/ p2) /\ IntLess(cost, 10)
                THEN Trigger(acc1, Veto2Msg_demo, 50)
                ELSE acc1
            action == Get(rep, "action_type", PyStr("UNKNOWN"))
            time_max == MaxTimeFor(action)
            exec_time == FloatOf(Get(rep, "execution_time_seconds", PyFloat(0)))
        IN  IF exec_time.exc # "" THEN VetoRaised(exec_time.exc)
            ELSE
            LET acc3 ==
                    IF ~exec_time.nan /\ exec_time.n > time_max
                    THEN Trigger(acc2, Veto3Msg(action.s, exec_time.n, time_max), 85)
                    ELSE acc2
                target == StrOf(Get(rep, "target_object", PyStr("")))
                acc4 ==
                    IF is_critical_target_demo(target) /\ ~p1
                    THEN Trigger(acc3, Veto4Msg(target), 90)
                    ELSE acc3
            IN  Aggregate(acc4)

(***************************************************************************)
(* The metadata records the agent may report.  Every field may be absent;  *)
(* a present field holds a value of its schema type or, for the cost, the  *)
(* time and the target, a value of another type.                           *)
(***************************************************************************)
Absent == [t |-> "absent", n |-> 0, s |-> ""]

Flags == {Absent, PyBool(TRUE), PyBool(FALSE)}

ActionTypes ==
    {Absent, PyStr("MOVE"), PyStr("ACQUIRE"), PyStr("COMMUNICATE"), PyStr("ANALYSIS"),
     PyStr("TELEPORT")}

Targets ==
    {Absent, PyStr("safe_container"), PyStr("Life Support"), PyStr("life support"),
     PyStr("Critical System 7 access path"), PyNone}

Costs == {Absent, PyInt(9), PyInt(10), PyStr("abc"), PyNone}

Times ==
    {Absent, PyFloat(10), PyFloat(11), PyFloat(60), PyFloat(61), PyFloat(100), PyFloat(101),
     PyFloat(1200), PyFloat(1201), PyFloat(9999), PyFloat(10000), PyStr("soon")}

Consequences ==
    {Absent, PyStr("Target reached."), PyStr("No observable physical change."),
     PyStr("no observable change")}

Fields ==
    {"action_type", "target_object", "resource_cost_units",
     "execution_time_seconds", "predicted_p1_violation",
     "predicted_p2_violation", "estimated_consequences"}

\* the dict with the keys whose value is not Absent
Present(c) == [f \in {g \in Fields : c[g] # Absent} |-> c[f]]

Reports ==
    [action_type : ActionTypes, target_object : Targets,
     resource_cost_units : Costs, execution_time_seconds : Times,
     predicted_p1_violation : Flags, predicted_p2_violation : Flags,
     estimated_consequences : Consequences]

AtlInit ==
    /\ \E c \in Reports : reported = Present(c)
    /\ atl = NoCallYet
    /\ candidate_actions = <<>>
    /\ safe_state = [imminent_harm |-> FALSE]
    /\ KernelIdle
    /\ SafeModeIdle
    /\ ThreadsIdle
    /\ HorizonIdle
    /\ CpmIdle
    /\ HflIdle

VetoMetadata ==
    /\ atl' = [fn |-> "veto_metadata", out |-> veto_metadata(reported)]
    /\ UNCHANGED <<reported, kernel_vars, safe_mode_vars, thread_vars, horizon_vars,
                   cpm_vars, hfl_vars>>

VetoMetadataDemo ==
    /\ atl' = [fn |-> "veto_metadata_demo", out |-> veto_metadata_demo(reported)]
    /\ UNCHANGED <<reported, kernel_vars, safe_mode_vars, thread_vars, horizon_vars,
                   cpm_vars, hfl_vars>>

AtlNext == VetoMetadata \/ VetoMetadataDemo

AtlSpec == AtlInit /\ [][AtlNext]_vars

(***************************************************************************)
(* dfw_v6_risk_trajectory_harness.py and dfw_v6_master_demo.py: the        *)
(* long-horizon checks.  A risk, a difference, a mass and a threshold are  *)
(* whole numbers of fortieths: 4 is 0.10, 2 is 0.05, 32 is 0.8.  The risks *)
(* are multiples of 5 (eighths), which doubles add and subtract without    *)
(* rounding and which round(x, 4) leaves as they are.  A reason is its     *)
(* fixed text with the two numbers it formats.                             *)
(***************************************************************************)
MaxLen == 4

RiskValues == {0, 5, 10, 40}

Gamma1Values == {-5, 4, 5}

Gamma2Values == {-5, 2, 5}

ThetaValues == {-5, 0, 20, 32}

Trajectories == UNION {[1..n -> RiskValues] : n \in 0..MaxLen}

HMsg(text, value, threshold) ==
    [text |-> text, value |-> value, threshold |-> threshold]

HText(text) == HMsg(text, 0, 0)

RECURSIVE JoinBy(_, _)
JoinBy(reasons, sep) ==
    IF Len(reasons) <= 1 THEN reasons
    ELSE <<Head(reasons), sep>> \o JoinBy(Tail(reasons), sep)

\* [seq[i + 1] - seq[i] for i in range(len(seq) - 1)], taken the other way
Diffs_Backward(seq) == [i \in 1..(Len(seq) - 1) |-> seq[i] - seq[i + 1]]

\* [seq[i + 1] - seq[i] for i in range(len(seq) - 1)]
Diffs(seq) == [i \in 1..(Len(seq) - 1) |-> seq[i + 1] - seq[i]]

\* max(seq), taken to be the last element
MaxOf_Last(seq) == seq[Len(seq)]

\* max(seq), taken to be the first element
MaxOf_First(seq) == seq[1]

\* max(seq), for a non-empty seq
MaxOf(seq) ==
    LET i == CHOOSE i \in DOMAIN seq : \A j \in DOMAIN seq : seq[i] >= seq[j]
    IN  seq[i]

\* sum(seq)
RECURSIVE SumOf(_)
SumOf(seq) == IF seq = <<>> THEN 0 ELSE Head(seq) + SumOf(Tail(seq))

rmdm_check(rs, gamma1, gamma2) ==
    IF Len(rs) < 3
    THEN [veto |-> FALSE, reason |-> <<HText("RMDM: trajectory too short.")>>,
          max_d1 |-> 0, max_d2 |-> 0]
    ELSE
    LET d1 == Diffs(rs)
        d2 == Diffs(d1)
        max_d1 == MaxOf(d1)
        max_d2 == IF d2 # <<>> THEN MaxOf(d2) ELSE 0
        steep ==
            IF max_d1 > gamma1
            THEN <<HMsg("RMDM: steep gradient detected (max dR = {max_d1} > {gamma1})",
                        max_d1, gamma1)>>
            ELSE <<>>
        accelerating ==
            IF max_d2 > gamma2
            THEN <<HMsg("RMDM: accelerating gradient detected (max d2R = {max_d2} > {gamma2})",
                        max_d2, gamma2)>>
            ELSE <<>>
        reasons == steep \o accelerating
    IN  [veto |-> Len(reasons) > 0,
         reason |-> IF reasons # <<>>
                    THEN JoinBy(reasons, HText("; "))
                    ELSE <<HText("RMDM: no gradient/acceleration breach.")>>,
         max_d1 |-> max_d1, max_d2 |-> max_d2]

rmdm_check_demo(rs, gamma_1, gamma_2) ==
    IF Len(rs) < 3
    THEN [veto |-> FALSE, reason |-> <<HText("RMDM: sequence too short.")>>,
          max_d1 |-> 0, max_d2 |-> 0]
    ELSE
    LET diffs1 == Diffs(rs)
        diffs2 == Diffs(diffs1)
        max_d1 == MaxOf(diffs1)
        max_d2 == IF diffs2 # <<>> THEN MaxOf(diffs2) ELSE 0
    IN  IF max_d1 > gamma_1
        THEN [veto |-> TRUE,
              reason |-> <<HMsg("RMDM: first-difference gradient {max_d1} > g1={gamma_1}",
                                max_d1, gamma_1)>>,
              max_d1 |-> max_d1, max_d2 |-> max_d2]
        ELSE IF max_d2 > gamma_2
        THEN [veto |-> TRUE,
              reason |-> <<HMsg("RMDM: second-difference acceleration {max_d2} > g2={gamma_2}",
                                max_d2, gamma_2)>>,
              max_d1 |-> max_d1, max_d2 |-> max_d2]
        ELSE [veto |-> FALSE,
              reason |-> <<HText("RMDM: no gradient/acceleration breach.")>>,
              max_d1 |-> max_d1, max_d2 |-> max_d2]

hrai_check(rs, theta) ==
    IF rs = <<>>
    THEN [veto |-> FALSE, reason |-> <<HText("HRAI: empty trajectory.")>>, mass |-> 0]
    ELSE
    LET mass == SumOf(rs)
    IN  IF mass > theta
        THEN [veto |-> TRUE,
              reason |-> <<HMsg("HRAI: accumulated risk mass {mass} exceeds theta={theta}",
                                mass, theta)>>,
              mass |-> mass]
        ELSE [veto |-> FALSE,
              reason |-> <<HMsg("HRAI: accumulated risk mass {mass} below theta={theta}",
                                mass, theta)>>,
              mass |-> mass]

hra_accumulation_check(rs, theta) ==
    LET mass == SumOf(rs)
    IN  IF mass > theta
        THEN [veto |-> TRUE,
              reason |-> <<HMsg("HRAI: accumulated risk mass {mass} exceeds theta={theta}",
                                mass, theta)>>,
              mass |-> mass]
        ELSE [veto |-> FALSE,
              reason |-> <<HMsg("HRAI: accumulated risk mass {mass} below theta={theta}",
                                mass, theta)>>,
              mass |-> mass]

\* the guard with the mass check left out of the decision
long_horizon_guard_RmdmOnly(rs, gamma1, gamma2, theta) ==
    LET rmdm_res == rmdm_check(rs, gamma1, gamma2)
        hrai_res == hrai_check(rs, theta)
    IN  [veto |-> rmdm_res.veto,
         reason |-> IF rmdm_res.veto
                    THEN <<HText("RMDM: ")>> \o rmdm_res.reason
                    ELSE <<HText("No long-horizon guard triggered (RMDM + HRAI).")>>,
         rmdm |-> rmdm_res, hrai |-> hrai_res]

long_horizon_guard(rs, gamma1, gamma2, theta) ==
    LET rmdm_res == rmdm_check(rs, gamma1, gamma2)
        hrai_res == hrai_check(rs, theta)
        veto == rmdm_res.veto \/ hrai_res.veto
        r1 == IF rmdm_res.veto THEN <<HText("RMDM: ")>> \o rmdm_res.reason ELSE <<>>
        r2 == IF hrai_res.veto THEN <<HText("HRAI: ")>> \o hrai_res.reason ELSE <<>>
        reason ==
            IF r1 = <<>> /\ r2 = <<>>
            THEN <<HText("No long-horizon guard triggered (RMDM + HRAI).")>>
            ELSE IF r1 # <<>> /\ r2 # <<>>
            THEN r1 \o <<HText(" | ")>> \o r2
            ELSE r1 \o r2
    IN  [veto |-> veto, reason |-> reason, rmdm |-> rmdm_res, hrai |-> hrai_res]

long_horizon_guard_demo(rs, theta, gamma_1, gamma_2) ==
    LET rmdm_result == rmdm_check_demo(rs, gamma_1, gamma_2)
        hra_result == hra_accumulation_check(rs, theta)
        veto == rmdm_result.veto \/ hra_result.veto
        r1 == IF rmdm_result.veto THEN <<HText("[RMDM] ")>> \o rmdm_result.reason ELSE <<>>
        r2 == IF hra_result.veto THEN <<HText("[HRAI] ")>> \o hra_result.reason ELSE <<>>
        reason ==
            IF r1 = <<>> /\ r2 = <<>>
            THEN <<HText("No long-horizon invariant violated.")>>
            ELSE IF r1 # <<>> /\ r2 # <<>>
            THEN r1 \o <<HText(" | ")>> \o r2
            ELSE r1 \o r2
    IN  [veto |-> veto, reason |-> reason, rmdm |-> rmdm_result, hrai |-> hra_result]

HorizonInit ==
    /\ risks \in Trajectories
    /\ thresholds \in [gamma1 : Gamma1Values, gamma2 : Gamma2Values, theta : ThetaValues]
    /\ horizon = NoCallYet
    /\ candidate_actions = <<>>
    /\ safe_state = [imminent_harm |-> FALSE]
    /\ KernelIdle
    /\ SafeModeIdle
    /\ ThreadsIdle
    /\ AtlIdle
    /\ CpmIdle
    /\ HflIdle

RmdmCheck ==
    /\ horizon' = [fn |-> "rmdm_check",
                   out |-> rmdm_check(risks, thresholds.gamma1, thresholds.gamma2)]
    /\ UNCHANGED <<risks, thresholds, kernel_vars, safe_mode_vars, thread_vars, atl_vars,
                   cpm_vars, hfl_vars>>

RmdmCheckDemo ==
    /\ horizon' = [fn |-> "rmdm_check_demo",
                   out |-> rmdm_check_demo(risks, thresholds.gamma1, thresholds.gamma2)]
    /\ UNCHANGED <<risks, thresholds, kernel_vars, safe_mode_vars, thread_vars, atl_vars,
                   cpm_vars, hfl_vars>>

HraiCheck ==
    /\ horizon' = [fn |-> "hrai_check", out |-> hrai_check(risks, thresholds.theta)]
    /\ UNCHANGED <<risks, thresholds, kernel_vars, safe_mode_vars, thread_vars, atl_vars,
                   cpm_vars, hfl_vars>>

HraAccumulationCheck ==
    /\ horizon' = [fn |-> "hra_accumulation_check",
                   out |-> hra_accumulation_check(risks, thresholds.theta)]
    /\ UNCHANGED <<risks, thresholds, kernel_vars, safe_mode_vars, thread_vars, atl_vars,
                   cpm_vars, hfl_vars>>

LongHorizonGuard ==
    /\ horizon' = [fn |-> "long_horizon_guard",
                   out |-> long_horizon_guard(risks, thresholds.gamma1,
                                              thresholds.gamma2, thresholds.theta)]
    /\ UNCHANGED <<risks, thresholds, kernel_vars, safe_mode_vars, thread_vars, atl_vars,
                   cpm_vars, hfl_vars>>

LongHorizonGuardDemo ==
    /\ horizon' = [fn |-> "long_horizon_guard_demo",
                   out |-> long_horizon_guard_demo(risks, thresholds.theta,
                                                   thresholds.gamma1, thresholds.gamma2)]
    /\ UNCHANGED <<risks, thresholds, kernel_vars, safe_mode_vars, thread_vars, atl_vars,
                   cpm_vars, hfl_vars>>

HorizonNext ==
    \/ RmdmCheck
    \/ RmdmCheckDemo
    \/ HraiCheck
    \/ HraAccumulationCheck
    \/ LongHorizonGuard
    \/ LongHorizonGuardDemo

HorizonSpec == HorizonInit /\ [][HorizonNext]_vars

(***************************************************************************)
(* cpm_simulator.py: aggregate_ensemble_confidence.  A confidence is a     *)
(* whole number of hundredths.                                             *)
(***************************************************************************)
MaxConfs == 3

ConfidenceValues == {0, 5, 50, 99, 100}

ConfidenceLists == UNION {[1..n -> ConfidenceValues] : n \in 0..MaxConfs}

\* min in place of max
aggregate_ensemble_confidence_Min(confs) ==
    IF confs = <<>> THEN 0
    ELSE LET i == CHOOSE i \in DOMAIN confs : \A j \in DOMAIN confs : confs[i] <= confs[j]
         IN  confs[i]

aggregate_ensemble_confidence(confs) ==
    IF confs = <<>> THEN 0 ELSE MaxOf(confs)

CpmInit ==
    /\ confidences \in ConfidenceLists
    /\ aggregate = NoCallYet
    /\ candidate_actions = <<>>
    /\ safe_state = [imminent_harm |-> FALSE]
    /\ KernelIdle
    /\ SafeModeIdle
    /\ ThreadsIdle
    /\ AtlIdle
    /\ HorizonIdle
    /\ HflIdle

AggregateEnsembleConfidence ==
    /\ aggregate' = [fn |-> "aggregate_ensemble_confidence",
                     out |-> aggregate_ensemble_confidence(confidences)]
    /\ UNCHANGED <<confidences, kernel_vars, safe_mode_vars, thread_vars, atl_vars,
                   horizon_vars, hfl_vars>>

CpmNext == AggregateEnsembleConfidence

CpmSpec == CpmInit /\ [][CpmNext]_vars

(***************************************************************************)
(* hfl.py: hfl_feasibility_check.  Forces are in newtons, velocities in    *)
(* metres per second, energies in joules and durations in seconds, all     *)
(* whole numbers.                                                          *)
(***************************************************************************)
MAX_FORCE_NEWTONS == 1000
MAX_VELOCITY_MS == 10
MAX_ENERGY_JOULES == 100000
MAX_DURATION_SECONDS == 30

\* float(d[key]) inside PhysicalMetadata.from_dict: a missing key raises
\* KeyError
FieldAsFloat(d, key) ==
    IF key \notin DOMAIN d
    THEN [exc |-> "KeyError", n |-> 0, nan |-> FALSE]
    ELSE FloatOf(d[key])

\* PhysicalMetadata.from_dict: the four fields are converted in this order;
\* KeyError, TypeError and ValueError are raised again as ValueError, any
\* other exception passes through.
from_dict(d) ==
    LET max_force == FieldAsFloat(d, "max_force")
        max_velocity == FieldAsFloat(d, "max_velocity")
        delta_energy == FieldAsFloat(d, "delta_energy")
        duration == FieldAsFloat(d, "duration")
        order == <<max_force, max_velocity, delta_energy, duration>>
        failed == {i \in 1..4 : order[i].exc # ""}
    IN  IF failed = {}
        THEN [exc |-> "", max_force |-> max_force, max_velocity |-> max_velocity,
              delta_energy |-> delta_energy, duration |-> duration]
        ELSE LET first == CHOOSE i \in failed : \A j \in failed : i <= j
             IN  IF order[first].exc \in {"KeyError", "TypeError", "ValueError"}
                 THEN [exc |-> "ValueError"]
                 ELSE [exc |-> order[first].exc]

\* a < b, a > b and a <= b on floats: false when one side is nan
FloatLess(a, n) == ~a.nan /\ a.n < n
FloatGreater(a, n) == ~a.nan /\ a.n > n
FloatLessEq(a, n) == ~a.nan /\ a.n <= n

\* abs(a)
FloatAbs(a) == [a EXCEPT !.n = IF a.n < 0 THEN -a.n ELSE a.n]

metadata_within_limits(meta) ==
    IF FloatLess(meta.max_force, 0) \/ FloatGreater(meta.max_force, MAX_FORCE_NEWTONS)
    THEN FALSE
    ELSE IF FloatLess(meta.max_velocity, 0)
            \/ FloatGreater(meta.max_velocity, MAX_VELOCITY_MS)
    THEN FALSE
    ELSE IF FloatGreater(FloatAbs(meta.delta_energy), MAX_ENERGY_JOULES)
    THEN FALSE
    ELSE IF FloatLessEq(meta.duration, 0)
            \/ FloatGreater(meta.duration, MAX_DURATION_SECONDS)
    THEN FALSE
    ELSE TRUE

HflRaised(exc) == [kind |-> "raise", exc |-> exc]

HflReturned(result, printed) ==
    [kind |-> "return", result |-> result, printed |-> printed]

hfl_feasibility_check(d) ==
    LET meta == from_dict(d)
    IN  IF meta.exc = "ValueError"
        THEN HflReturned("SAFE_MODE", <<"[HFL] Metadata error: {e}">>)
        ELSE IF meta.exc # ""
        THEN HflRaised(meta.exc)
        ELSE IF ~metadata_within_limits(meta)
        THEN HflReturned("REJECT",
                         <<"[HFL] Metadata exceeds configured physical limits.">>)
        ELSE HflReturned("EXECUTE", <<>>)

Forces ==
    {Absent, PyFloat(-1), PyFloat(0), PyFloat(1000), PyFloat(1001), PyStr("abc"),
     PyNaN, PyHuge}

Velocities == {Absent, PyFloat(-1), PyFloat(0), PyFloat(10), PyFloat(11), PyNone}

Energies ==
    {Absent, PyFloat(-100001), PyFloat(-100000), PyFloat(0), PyFloat(100000),
     PyFloat(100001)}

Durations == {Absent, PyFloat(0), PyFloat(1), PyFloat(30), PyFloat(31), PyHuge}

PhysicalFields == {"max_force", "max_velocity", "delta_energy", "duration"}

PhysicalDicts ==
    [max_force : Forces, max_velocity : Velocities, delta_energy : Energies,
     duration : Durations]

\* the dict with the keys whose value is not Absent
PresentPhysical(c) == [f \in {g \in PhysicalFields : c[g] # Absent} |-> c[f]]

HflInit ==
    /\ \E c \in PhysicalDicts : meta_dict = PresentPhysical(c)
    /\ decision = NoCallYet
    /\ candidate_actions = <<>>
    /\ safe_state = [imminent_harm |-> FALSE]
    /\ KernelIdle
    /\ SafeModeIdle
    /\ ThreadsIdle
    /\ AtlIdle
    /\ HorizonIdle
    /\ CpmIdle

HflFeasibilityCheck ==
    /\ decision' = [fn |-> "hfl_feasibility_check",
                    out |-> hfl_feasibility_check(meta_dict)]
    /\ UNCHANGED <<meta_dict, kernel_vars, safe_mode_vars, thread_vars, atl_vars,
                   horizon_vars, cpm_vars>>

HflNext == HflFeasibilityCheck

HflSpec == HflInit /\ [][HflNext]_vars

(***************************************************************************)
(* Claims about violation_score and choose_action, under KernelSpec.       *)
(* After a call that returns, `scored` holds every candidate with the      *)
(* score violation_score gave it under safe_state.                         *)
(***************************************************************************)
Entries == {scored[i] : i \in DOMAIN scored}

OmissionApplies(a) == safe_state.imminent_harm /\ ~a.is_rescue

\* C1 as stated: every scored action with causes_irreversible_harm has a
\* score of at least P1_WEIGHT, and a score strictly greater than that of
\* every scored action without the flag, under the same state.
C1_HarmAlwaysGreater ==
    \A x \in Entries, y \in Entries :
        (x.action.causes_irreversible_harm /\ ~y.action.causes_irreversible_harm)
            => (x.score >= P1_WEIGHT /\ x.score > y.score)

\* C1 as amended: every scored action with causes_irreversible_harm has a
\* score of at least P1_WEIGHT; its score is strictly greater than that of a
\* scored action without the flag, except when imminent_harm is true, the
\* harming action is a rescue and the other one is not (the other one then
\* carries the omission penalty alone).
C1_HarmGreaterUnlessOmission ==
    \A x \in Entries, y \in Entries :
        (x.action.causes_irreversible_harm /\ ~y.action.causes_irreversible_harm)
            => /\ x.score >= P1_WEIGHT
               /\ ~(safe_state.imminent_harm /\ x.action.is_rescue /\ ~y.action.is_rescue)
                    => x.score > y.score

C1_Witness ==
    /\ outcome.kind = "return"
    /\ safe_state.imminent_harm
    /\ \E x \in Entries, y \in Entries :
        /\ x.action.causes_irreversible_harm /\ ~x.action.is_rescue
        /\ ~y.action.causes_irreversible_harm /\ ~y.action.is_rescue
        /\ y.action.violates_truth_lock /\ y.action.violates_resource_bounds
        /\ x.score > y.score

\* The contributions of an action's own flags, as the claims count them.
FlagContributions(a) ==
    (IF a.causes_irreversible_harm THEN P1_WEIGHT ELSE 0)
    + (IF a.violates_truth_lock \/ a.violates_auth_lock THEN P2_WEIGHT ELSE 0)
    + (IF a.violates_resource_bounds THEN P3_WEIGHT ELSE 0)

\* C2: with imminent_harm true and is_rescue false the score is the flag
\* contributions plus exactly P1_WEIGHT (so at least 2 * P1_WEIGHT when
\* causes_irreversible_harm is set too); with imminent_harm false or
\* is_rescue true the score is the flag contributions alone.
C2_OmissionPenalty ==
    \A x \in Entries :
        /\ OmissionApplies(x.action)
            => /\ x.score = FlagContributions(x.action) + P1_WEIGHT
               /\ x.action.causes_irreversible_harm => x.score >= 2 * P1_WEIGHT
        /\ ~OmissionApplies(x.action)
            => x.score = FlagContributions(x.action)

C2_Witness ==
    /\ outcome.kind = "return"
    /\ \E x \in Entries, y \in Entries :
        /\ OmissionApplies(x.action)
        /\ x.action.causes_irreversible_harm
        /\ x.score >= 2 * P1_WEIGHT
        /\ ~OmissionApplies(y.action)
        /\ y.score < P1_WEIGHT

\* The tiers an action violates: the number of tier-1 contributions, then
\* whether tier 2 and whether tier 3 is violated.
TierTriple(a) ==
    <<(IF a.causes_irreversible_harm THEN 1 ELSE 0)
        + (IF OmissionApplies(a) THEN 1 ELSE 0),
      IF a.violates_truth_lock \/ a.violates_auth_lock THEN 1 ELSE 0,
      IF a.violates_resource_bounds THEN 1 ELSE 0>>

LexLess(u, v) ==
    \/ u[1] < v[1]
    \/ u[1] = v[1] /\ u[2] < v[2]
    \/ u[1] = v[1] /\ u[2] = v[2] /\ u[3] < v[3]

\* C3: the tier-2 weight is counted once even when both truth-lock and
\* auth-lock are violated, all lower-tier weights together stay below one
\* higher-tier weight, and the order of the scores of two scored actions is
\* the lexicographic order of their tier triples.
C3_TierDominance ==
    /\ P3_WEIGHT < P2_WEIGHT
    /\ P2_WEIGHT + P3_WEIGHT < P1_WEIGHT
    /\ \A x \in Entries :
        (x.score % P1_WEIGHT) - (x.score % P2_WEIGHT)
            = TierTriple(x.action)[2] * P2_WEIGHT
    /\ \A x \in Entries, y \in Entries :
        (x.score < y.score) <=> LexLess(TierTriple(x.action), TierTriple(y.action))

C3_Witness ==
    /\ outcome.kind = "return"
    /\ \E x \in Entries, y \in Entries :
        /\ x.action.violates_truth_lock /\ x.action.violates_auth_lock
        /\ x.action.violates_resource_bounds
        /\ ~x.action.causes_irreversible_harm /\ ~OmissionApplies(x.action)
        /\ y.action.causes_irreversible_harm
        /\ ~y.action.violates_truth_lock /\ ~y.action.violates_auth_lock
        /\ ~y.action.violates_resource_bounds
        /\ x.score < y.score

Candidates == {candidate_actions[i] : i \in DOMAIN candidate_actions}

\* Whether candidate c comes strictly before candidate d in the order
\* (violation_score ascending, name ascending).
StrictlyBefore(c, d) ==
    LET vc == violation_score(c, safe_state)
        vd == violation_score(d, safe_state)
    IN  vc < vd \/ (vc = vd /\ StrLess(c.name, d.name))

\* C4: a call on a non-empty list returns a candidate; no candidate has a
\* lower score, nor the same score and a smaller name; and calling again
\* with the same candidates and state changes nothing in the result.
C4_MinimalScoreThenName ==
    /\ [](candidate_actions # <<>> /\ outcome.kind # "none"
            => /\ outcome.kind = "return"
               /\ outcome.action \in Candidates
               /\ \A c \in Candidates : ~StrictlyBefore(c, outcome.action))
    /\ [][outcome.kind # "none" => outcome' = outcome]_vars

C4_Witness ==
    /\ outcome.kind = "return"
    /\ Len(candidate_actions) = 2
    /\ violation_score(candidate_actions[1], safe_state)
         = violation_score(candidate_actions[2], safe_state)
    /\ StrLess(candidate_actions[2].name, candidate_actions[1].name)
    /\ outcome.action = candidate_actions[2]

Plain(name, rescue) ==
    [name |-> name,
     causes_irreversible_harm |-> FALSE,
     violates_truth_lock |-> FALSE,
     violates_auth_lock |-> FALSE,
     violates_resource_bounds |-> FALSE,
     is_rescue |-> rescue]

DemoDoNothing == Plain("DoNothing", FALSE)
DemoRescueHuman == Plain("RescueHuman", TRUE)

\* C5: under imminent harm, when some candidate is a rescue that causes no
\* irreversible harm, the returned action is a rescue; for the candidates
\* DoNothing and RescueHuman of the demo the scores are P1_WEIGHT and 0 and
\* RescueHuman is returned.
C5_RescuePreferred ==
    (outcome.kind # "none" /\ safe_state.imminent_harm)
        => /\ (\E c \in Candidates : c.is_rescue /\ ~c.causes_irreversible_harm)
                => (outcome.kind = "return" /\ outcome.action.is_rescue)
           /\ candidate_actions = <<DemoDoNothing, DemoRescueHuman>>
                => /\ scored = <<[action |-> DemoRescueHuman, score |-> 0],
                                 [action |-> DemoDoNothing, score |-> P1_WEIGHT]>>
                   /\ outcome = Returned(DemoRescueHuman)

C5_Witness ==
    /\ safe_state.imminent_harm
    /\ candidate_actions = <<DemoDoNothing, DemoRescueHuman>>
    /\ outcome.kind = "return"
    /\ outcome.action.name = "RescueHuman"

\* C6: a call on the empty list ends by raising ValueError, which no call on
\* a non-empty list raises; it returns no action.
C6_EmptyRaises ==
    outcome.kind # "none"
        => /\ candidate_actions = <<>> => outcome = Raised("ValueError")
           /\ outcome.kind = "raise" => candidate_actions = <<>>

C6_Witness ==
    /\ candidate_actions = <<>>
    /\ outcome.kind = "raise"
    /\ outcome.exc = "ValueError"

(***************************************************************************)
(* Claims about enter_safe_mode and exit_safe_mode called one after the    *)
(* other, under SafeModeSpec.  The line a call prints tells which call a   *)
(* step was.                                                               *)
(***************************************************************************)
Printed(l) == console' = console \o stdout_print(l)

\* C7: from Safe Mode, a step of exit_safe_mode(authorised=False) leaves
\* active true and the reason as it was; a step of
\* exit_safe_mode(authorised=True) leaves active false and the reason "".
C7_ExitFromSafeMode ==
    [][sm.active
        => /\ Printed(RefusedLine) => sm' = sm
           /\ Printed(ExitedLine) => sm' = [active |-> FALSE, reason |-> ""]]_vars

C7_Witness ==
    /\ console = stdout_print(EnteredLine("HFL metadata inconsistency + CPM disagreement"))
                    \o stdout_print(RefusedLine) \o stdout_print(ExitedLine)
    /\ sm = [active |-> FALSE, reason |-> ""]

\* C8: enter_safe_mode can be called in every state, whether Safe Mode is
\* active or not, and a step of enter_safe_mode(state, r) leaves active true
\* and the reason r, whatever the reason was.
C8_EnterUnconditional ==
    /\ [](Len(console) < 2 * MaxCalls => \A r \in Reasons : ENABLED EnterSafeMode(r))
    /\ [][\A r \in Reasons :
            Printed(EnteredLine(r)) => sm' = [active |-> TRUE, reason |-> r]]_vars

C8_Witness ==
    /\ console = stdout_print(EnteredLine("HFL metadata inconsistency + CPM disagreement"))
                    \o stdout_print(EnteredLine("metadata veto"))
    /\ sm = [active |-> TRUE, reason |-> "metadata veto"]

(***************************************************************************)
(* Claims about calls that run at the same time, under RaceSpec.           *)
(***************************************************************************)
AllDone == \A t \in Threads : pc[t] = "done"

\* C9: active goes from true to false only in the step of an
\* exit_safe_mode(authorised=True) call that stores active; and when one
\* enter_safe_mode(state, r) ran together with refused exits only, the state
\* they leave is active with reason r.
C9_OnlyAuthorisedExitClears ==
    /\ [][(sm.active /\ ~sm'.active)
            => \E t \in Threads :
                /\ call[t] = ExitCall(TRUE)
                /\ pc[t] = "exit_62"
                /\ pc'[t] = "exit_63"]_vars
    /\ [](\A t \in Threads, r \in Reasons :
            (/\ AllDone
             /\ call[t] = EnterCall(r)
             /\ \A u \in Threads \ {t} : call[u] = ExitCall(FALSE))
                => sm = [active |-> TRUE, reason |-> r])

C9_Witness ==
    /\ AllDone
    /\ call[1] = ExitCall(FALSE)
    /\ call[2] = EnterCall("metadata veto")
    /\ console = stdout_print(EnteredLine("metadata veto")) \o stdout_print(RefusedLine)
    /\ sm = [active |-> TRUE, reason |-> "metadata veto"]

\* C10: when enter_safe_mode(state, r) and exit_safe_mode(state, True) ran
\* at the same time (any further call being a refused exit), the state they
\* leave is that of one of the two serial orders: active with reason r, or
\* not active with reason "".
C10_SerialOutcome ==
    \A t \in Threads, u \in Threads, r \in Reasons :
        (/\ AllDone
         /\ call[t] = EnterCall(r)
         /\ call[u] = ExitCall(TRUE)
         /\ \A v \in Threads \ {t, u} : call[v] = ExitCall(FALSE))
            => \/ sm = [active |-> TRUE, reason |-> r]
               \/ sm = [active |-> FALSE, reason |-> ""]

(***************************************************************************)
(* Claims about veto_metadata, under AtlSpec.  After a call, atl.out is    *)
(* what the implementation named by atl.fn gave for `reported`.  The       *)
(* claims speak of the record as the specification reads it: an absent     *)
(* field, or one whose value is not of the field's type, stands for the    *)
(* safe default of that field.                                             *)
(***************************************************************************)
VetoCalled == atl.fn # "none"

Range(seq) == {seq[i] : i \in DOMAIN seq}

FieldOr(key, default) ==
    IF key \in DOMAIN reported THEN reported[key] ELSE default

P1True == FieldOr("predicted_p1_violation", PyBool(FALSE)) = PyBool(TRUE)

P2True == FieldOr("predicted_p2_violation", PyBool(FALSE)) = PyBool(TRUE)

ConsequenceText == FieldOr("estimated_consequences", PyStr("")).s

MentionsNoChange ==
    Contains(Lower(Chars(ConsequenceText)), Chars("no observable physical change"))

CostUnits ==
    LET v == FieldOr("resource_cost_units", PyInt(0))
    IN  IF v.t = "int" THEN v.n ELSE 0

ExecSeconds ==
    LET v == FieldOr("execution_time_seconds", PyFloat(0))
    IN  IF v.t \in {"int", "float"} THEN v.n ELSE 0

TargetText ==
    LET v == FieldOr("target_object", PyStr(""))
    IN  IF v.t = "str" THEN v.s ELSE ""

ActionText == FieldOr("action_type", PyStr("UNKNOWN")).s

MaxSeconds ==
    CASE "action_type" \notin DOMAIN reported -> 9999
      [] OTHER ->
            CASE reported["action_type"].s = "MOVE" -> 100
              [] reported["action_type"].s = "ACQUIRE" -> 60
              [] reported["action_type"].s = "COMMUNICATE" -> 10
              [] reported["action_type"].s = "ANALYSIS" -> 1200
              [] OTHER -> 9999

ConfiguredAssets ==
    IF atl.fn = "veto_metadata" THEN CRITICAL_ASSETS ELSE CRITICAL_ASSETS_demo

NamesCriticalAsset ==
    \E i \in DOMAIN ConfiguredAssets :
        Contains(Chars(TargetText), Chars(ConfiguredAssets[i]))

RuleTriggers(k) ==
    CASE k = 1 -> P1True /\ MentionsNoChange
      [] k = 2 -> (P1True \/ P2True) /\ CostUnits < 10
      [] k = 3 -> ExecSeconds > MaxSeconds
      [] k = 4 -> NamesCriticalAsset /\ ~P1True

Triggered == {k \in 1..4 : RuleTriggers(k)}

RuleConfidence(k) ==
    CASE k = 1 -> 95 [] k = 2 -> 50 [] k = 3 -> 85 [] k = 4 -> 90

RuleMessage(k) ==
    CASE k = 1 -> Veto1Msg
      [] k = 2 -> IF atl.fn = "veto_metadata" THEN Veto2Msg ELSE Veto2Msg_demo
      [] k = 3 -> Veto3Msg(ActionText, ExecSeconds, MaxSeconds)
      [] k = 4 -> Veto4Msg(TargetText)

\* the messages of the triggered rules, in rule order
TriggeredMessages ==
    LET order == SelectSeq(<<1, 2, 3, 4>>, LAMBDA k : k \in Triggered)
    IN  [i \in 1..Len(order) |-> RuleMessage(order[i])]

ConfidenceSum ==
    LET conf(k) == IF k \in Triggered THEN RuleConfidence(k) ELSE 0
    IN  conf(1) + conf(2) + conf(3) + conf(4)

\* the messages of a reason, its separators left out
MessagesOf(reason) == SelectSeq(reason, LAMBDA m : m # Separator)

\* every present cost, time and target is of its field's type
WellTyped ==
    /\ FieldOr("resource_cost_units", PyInt(0)).t = "int"
    /\ FieldOr("execution_time_seconds", PyFloat(0)).t = "float"
    /\ FieldOr("target_object", PyStr("")).t = "str"

\* C12: a record with predicted_p1_violation true and a consequence text that
\* contains "no observable physical change" in any letter case is vetoed with
\* the Veto 1 message among the reasons, whatever its other fields hold.
C12_ContradictionVetoed ==
    (VetoCalled /\ RuleTriggers(1)) =>
        /\ atl.out.kind = "return"
        /\ atl.out.veto
        /\ Veto1Msg \in Range(atl.out.reason)

\* The same for the records whose cost, time and target are of their types.
ContradictionVetoedWhenWellTyped == WellTyped => C12_ContradictionVetoed

\* C13: veto_metadata returns veto = TRUE exactly when one of the four rules
\* triggers; with none the confidence is 0; with some the reason is made of
\* the messages of exactly the triggered rules in the order 1 to 4.
C13_VetoIffRuleTriggers ==
    VetoCalled =>
        /\ atl.out.kind = "return"
        /\ atl.out.veto <=> Triggered # {}
        /\ Triggered = {} => atl.out.confidence = 0
        /\ Triggered # {} => MessagesOf(atl.out.reason) = TriggeredMessages

VetoIffRuleTriggersWhenWellTyped == WellTyped => C13_VetoIffRuleTriggers

\* C14, as stated: the confidence of a veto is exactly the mean of the
\* confidences of the triggered rules, capped at 1.0.
C14_ExactMean ==
    (VetoCalled /\ atl.out.kind = "return" /\ atl.out.veto) =>
        atl.out.confidence * Cardinality(Triggered) =
            IF ConfidenceSum > 100 * Cardinality(Triggered)
            THEN 100 * Cardinality(Triggered)
            ELSE ConfidenceSum

\* C14, amended: the confidence of a veto is the mean of the confidences of
\* the triggered rules, capped at 1.0 and rounded to two decimal places: the
\* hundredth nearest to the mean, the even one of the two when the mean lies
\* half way between them.
C14_MeanRoundedToHundredths ==
    (VetoCalled /\ atl.out.kind = "return" /\ atl.out.veto) =>
        LET n == Cardinality(Triggered)
            c == atl.out.confidence
        IN  /\ n > 0
            /\ c <= 100
            /\ 2 * (c * n - ConfidenceSum) <= n
            /\ 2 * (ConfidenceSum - c * n) <= n
            /\ (2 * (c * n - ConfidenceSum) = n \/ 2 * (ConfidenceSum - c * n) = n)
                  => c % 2 = 0

\* rules 1, 2 and 3 trigger: the mean 0.7666... is returned as 0.77
C14_Witness ==
    /\ VetoCalled
    /\ atl.out.kind = "return"
    /\ Triggered = {1, 2, 3}
    /\ atl.out.confidence = 77

\* C15: a record whose target_object contains a configured critical asset
\* and whose predicted_p1_violation is false is vetoed with the Veto 4
\* message among the reasons; when no other rule triggers the confidence is
\* 0.90.
C15_CriticalAssetVetoed ==
    (VetoCalled /\ RuleTriggers(4)) =>
        /\ atl.out.kind = "return"
        /\ atl.out.veto
        /\ Veto4Msg(TargetText) \in Range(atl.out.reason)
        /\ Triggered = {4} => atl.out.confidence = 90

CriticalAssetVetoedWhenWellTyped == WellTyped => C15_CriticalAssetVetoed

\* C16: the result carries the Veto 3 message exactly when the execution
\* time is above the maximum of the action type (MOVE 100, ACQUIRE 60,
\* COMMUNICATE 10, ANALYSIS 1200 seconds), an unknown or absent type being
\* checked against 9999 seconds.
C16_TimeRuleExact ==
    VetoCalled =>
        /\ atl.out.kind = "return"
        /\ (\E m \in Range(atl.out.reason) :
                m = Veto3Msg(ActionText, ExecSeconds, MaxSeconds))
              <=> ExecSeconds > MaxSeconds

TimeRuleExactWhenWellTyped == WellTyped => C16_TimeRuleExact

\* the implementation that was called, applied to another record
Implementation(rep) ==
    IF atl.fn = "veto_metadata" THEN veto_metadata(rep) ELSE veto_metadata_demo(rep)

\* the defaults as the specification states them, and as the code has them
StatedDefault(f) ==
    CASE f \in {"predicted_p1_violation", "predicted_p2_violation"} -> PyBool(FALSE)
      [] f = "resource_cost_units" -> PyInt(0)
      [] f = "execution_time_seconds" -> PyFloat(0)
      [] OTHER -> PyStr("")

CodeDefault(f) ==
    IF f = "action_type" THEN PyStr("UNKNOWN") ELSE StatedDefault(f)

\* the record with every absent field replaced by its default
Filled(default(_)) ==
    [f \in Fields |-> IF f \in DOMAIN reported THEN reported[f] ELSE default(f)]

\* C17: for a record with any of its fields absent (the present
\* ones being of their types) veto_metadata returns, and its result is the
\* result for the record with false, 0 and "" in place of the absent fields;
\* the empty record gives veto = FALSE with confidence 0.
C17_DefaultsAsStated ==
    (VetoCalled /\ WellTyped) =>
        /\ atl.out.kind = "return"
        /\ atl.out = Implementation(Filled(StatedDefault))
        /\ DOMAIN reported = {} => (~atl.out.veto /\ atl.out.confidence = 0)

\* Apart from that default the absent fields behave as stated: the outcome
\* for a record, a raised exception included, is the outcome for the record
\* with false, 0, "" for target_object and estimated_consequences, and
\* "UNKNOWN" for action_type in place of its absent fields, and the empty
\* record is returned with veto = FALSE and confidence 0.
AbsentFieldsAsCodeDefaults ==
    VetoCalled =>
        /\ atl.out = Implementation(Filled(CodeDefault))
        /\ DOMAIN reported = {} =>
              (atl.out.kind = "return" /\ ~atl.out.veto /\ atl.out.confidence = 0)

\* C18: veto_metadata returns a result for every record, also when a present
\* field holds a value that is not of the field's type.
C18_NeverRaises == VetoCalled => atl.out.kind = "return"

(***************************************************************************)
(* Claims about the long-horizon checks, under HorizonSpec.  After a call, *)
(* horizon.out is what the function named by horizon.fn gave for `risks`   *)
(* and `thresholds`.                                                       *)
(***************************************************************************)
RmdmCalled == horizon.fn \in {"rmdm_check", "rmdm_check_demo"}

MassCalled == horizon.fn \in {"hrai_check", "hra_accumulation_check"}

GradientBreach ==
    \E i \in 1..(Len(risks) - 1) : risks[i + 1] - risks[i] > thresholds.gamma1

AccelerationBreach ==
    \E i \in 1..(Len(risks) - 2) :
        (risks[i + 2] - risks[i + 1]) - (risks[i + 1] - risks[i]) > thresholds.gamma2

TooShortReason ==
    IF horizon.fn = "rmdm_check"
    THEN <<HText("RMDM: trajectory too short.")>>
    ELSE <<HText("RMDM: sequence too short.")>>

\* C19: rmdm_check vetoes exactly when the trajectory has at least 3 points
\* and some first difference is above gamma1 or some second difference is
\* above gamma2; a trajectory of fewer than 3 points is not vetoed and gets
\* the 'too short' reason.
C19_RmdmVetoIffBreach ==
    RmdmCalled =>
        /\ horizon.out.veto <=>
              (Len(risks) >= 3 /\ (GradientBreach \/ AccelerationBreach))
        /\ Len(risks) < 3 =>
              (~horizon.out.veto /\ horizon.out.reason = TooShortReason)

\* the second difference alone breaches: 0.25, 0.125, 0.25 with gamma1 0.125
C19_Witness ==
    /\ RmdmCalled
    /\ Len(risks) >= 3
    /\ ~GradientBreach
    /\ AccelerationBreach
    /\ horizon.out.veto

\* C20: the mass check vetoes exactly when the sum of the trajectory is
\* above theta, for every trajectory and every theta; the empty trajectory
\* has mass 0 and is not vetoed.
C20_MassVetoIffAboveTheta ==
    MassCalled =>
        /\ horizon.out.veto <=> SumOf(risks) > thresholds.theta
        /\ risks = <<>> => (horizon.out.mass = 0 /\ ~horizon.out.veto)

\* The same for the thresholds that are not negative.
MassVetoIffAboveThetaWhenNotNegative ==
    thresholds.theta >= 0 => C20_MassVetoIffAboveTheta

(***************************************************************************)
(* Claims about long_horizon_guard, under HorizonSpec.                     *)
(***************************************************************************)
GuardCalled == horizon.fn \in {"long_horizon_guard", "long_horizon_guard_demo"}

\* what the two sub-checks of the called guard give when called on their own
GradientMonitor ==
    IF horizon.fn = "long_horizon_guard"
    THEN rmdm_check(risks, thresholds.gamma1, thresholds.gamma2)
    ELSE rmdm_check_demo(risks, thresholds.gamma1, thresholds.gamma2)

MassMonitor ==
    IF horizon.fn = "long_horizon_guard"
    THEN hrai_check(risks, thresholds.theta)
    ELSE hra_accumulation_check(risks, thresholds.theta)

NothingTriggered ==
    IF horizon.fn = "long_horizon_guard"
    THEN <<HText("No long-horizon guard triggered (RMDM + HRAI).")>>
    ELSE <<HText("No long-horizon invariant violated.")>>

\* the labels and the separator the guard puts around the sub-reasons
GuardPunctuation ==
    {HText("RMDM: "), HText("HRAI: "), HText("[RMDM] "), HText("[HRAI] "),
     HText(" | ")}

SubReasonsOf(reason) == SelectSeq(reason, LAMBDA m : m \notin GuardPunctuation)

\* C21: the guard vetoes exactly when the gradient monitor or the mass
\* monitor vetoes; its reason is made of the reasons of exactly the
\* sub-checks that vetoed, gradient first, and is the fixed text when
\* neither did.
C21_GuardIsOrOfSubChecks ==
    GuardCalled =>
        /\ horizon.out.veto <=> (GradientMonitor.veto \/ MassMonitor.veto)
        /\ (~GradientMonitor.veto /\ ~MassMonitor.veto)
              => horizon.out.reason = NothingTriggered
        /\ (GradientMonitor.veto \/ MassMonitor.veto)
              => SubReasonsOf(horizon.out.reason) =
                    (IF GradientMonitor.veto THEN GradientMonitor.reason ELSE <<>>)
                    \o (IF MassMonitor.veto THEN MassMonitor.reason ELSE <<>>)

\* only the mass monitor vetoes, and the guard vetoes
C21_Witness ==
    /\ GuardCalled
    /\ ~GradientMonitor.veto
    /\ MassMonitor.veto
    /\ horizon.out.veto
    /\ Len(risks) >= 3

(***************************************************************************)
(* Claims about aggregate_ensemble_confidence, under CpmSpec.              *)
(***************************************************************************)
AggregateCalled == aggregate.fn # "none"

\* C22: aggregate_ensemble_confidence gives 0 for the empty list and the
\* largest element otherwise; so it is never below an input, and replacing
\* one input by a larger value never lowers it.
C22_AggregateIsMax ==
    AggregateCalled =>
        /\ confidences = <<>> => aggregate.out = 0
        /\ confidences # <<>> =>
              /\ aggregate.out \in Range(confidences)
              /\ \A i \in DOMAIN confidences : aggregate.out >= confidences[i]
        /\ \A i \in DOMAIN confidences, v \in ConfidenceValues :
              v >= confidences[i] =>
                  aggregate_ensemble_confidence([confidences EXCEPT ![i] = v])
                      >= aggregate.out

\* the largest confidence is not the first of several
C22_Witness ==
    /\ AggregateCalled
    /\ Len(confidences) >= 2
    /\ aggregate.out > confidences[1]
    /\ aggregate.out = confidences[Len(confidences)]

(***************************************************************************)
(* Claims about hfl_feasibility_check, under HflSpec.                      *)
(***************************************************************************)
HflCalled == decision.fn # "none"

\* a field is missing, or its value is not a number
MissingOrNotNumeric ==
    \E f \in PhysicalFields :
        \/ f \notin DOMAIN meta_dict
        \/ meta_dict[f].t \notin {"int", "float"}
        \/ meta_dict[f] = PyNaN

\* the value of a numeric field is below lo or above hi
Outside(f, lo, hi) ==
    \/ meta_dict[f] = PyHuge
    \/ meta_dict[f].n < lo
    \/ meta_dict[f].n > hi

OutOfBounds ==
    \/ Outside("max_force", 0, 1000)
    \/ Outside("max_velocity", 0, 10)
    \/ Outside("delta_energy", -100000, 100000)
    \/ Outside("duration", 1, 30)
    \/ meta_dict["duration"].n <= 0

\* C25: hfl_feasibility_check returns for every input: SAFE_MODE exactly when
\* a field is missing or not numeric, otherwise REJECT exactly when a value
\* is out of bounds, otherwise EXECUTE; values at the limits are EXECUTE.
C25_FeasibilityThreeValued ==
    HflCalled =>
        /\ decision.out.kind = "return"
        /\ decision.out.result =
              IF MissingOrNotNumeric THEN "SAFE_MODE"
              ELSE IF OutOfBounds THEN "REJECT"
              ELSE "EXECUTE"

\* The same for the dicts that hold neither a nan nor an int beyond the
\* range of a double.
FeasibilityThreeValuedOnFiniteNumbers ==
    (\A f \in DOMAIN meta_dict : meta_dict[f] \notin {PyNaN, PyHuge})
        => C25_FeasibilityThreeValued

(***************************************************************************)
(* Claims about the reasons that vetoes and safe-mode entries carry.       *)
(***************************************************************************)
\* a reason made of messages is a non-empty string
NonEmptyText(reason) ==
    /\ reason # <<>>
    /\ \A i \in DOMAIN reason : reason[i].text # ""

\* C23: every veto carries a non-empty reason, and whenever the safe-mode
\* state is active its reason is not the empty string.  Stated under
\* SafeModeSpec for the safe-mode state.
C23_ActiveHasReason == sm.active => sm.reason # ""

\* The vetoes of veto_metadata, under AtlSpec.
MetadataVetoHasReason ==
    (VetoCalled /\ atl.out.kind = "return" /\ atl.out.veto)
        => NonEmptyText(atl.out.reason)

\* The vetoes of the long-horizon checks and of the guard, under HorizonSpec.
HorizonVetoHasReason ==
    (horizon.fn # "none" /\ horizon.out.veto) => NonEmptyText(horizon.out.reason)

(***************************************************************************)
(* Further claims about the long-horizon checks, under HorizonSpec.        *)
(***************************************************************************)
\* the called function was given a negative threshold among those it reads
NegativeThresholdGiven ==
    \/ /\ RmdmCalled \/ GuardCalled
       /\ thresholds.gamma1 < 0 \/ thresholds.gamma2 < 0
    \/ /\ MassCalled \/ GuardCalled
       /\ thresholds.theta < 0

\* C24: a call with a negative gamma1, gamma2 or theta is rejected: it does
\* not end with a result that holds a veto decision.
C24_NegativeThresholdRejected ==
    NegativeThresholdGiven => "veto" \notin DOMAIN horizon.out

(***************************************************************************)
(* The two implementations of veto_metadata compared, under AtlSpec.       *)
(***************************************************************************)
\* the implementation that was not called, applied to the same record
OtherImplementation ==
    IF atl.fn = "veto_metadata"
    THEN veto_metadata_demo(reported)
    ELSE veto_metadata(reported)

\* the rule a message of a reason belongs to, 0 for any other message
RuleNumber(m) ==
    CASE m = Veto1Msg -> 1
      [] m \in {Veto2Msg, Veto2Msg_demo} -> 2
      [] m.text = Veto3Msg("", 0, 0).text -> 3
      [] m.text = Veto4Msg("").text -> 4
      [] OTHER -> 0

RulesIn(reason) == {RuleNumber(m) : m \in Range(MessagesOf(reason))} \ {0}

\* C26: for every record whose fields are of their types, the two
\* implementations of veto_metadata return the same veto flag, the same set
\* of triggered rules and the same confidence.
C26_ImplementationsAgree ==
    (VetoCalled /\ WellTyped) =>
        LET other == OtherImplementation
        IN  /\ atl.out.kind = "return"
            /\ other.kind = "return"
            /\ atl.out.veto = other.veto
            /\ RulesIn(atl.out.reason) = RulesIn(other.reason)
            /\ atl.out.confidence = other.confidence

\* the target names the asset that only the demo lists, and rule 4 triggers
C26_Witness ==
    /\ VetoCalled
    /\ WellTyped
    /\ TargetText = "Critical System 7 access path"
    /\ RulesIn(atl.out.reason) = {4}
    /\ RulesIn(OtherImplementation.reason) = {4}

\* the veto of the other implementation of the called function, for the
\* same trajectory and thresholds
CounterpartVeto ==
    CASE horizon.fn = "rmdm_check" ->
            rmdm_check_demo(risks, thresholds.gamma1, thresholds.gamma2).veto
      [] horizon.fn = "rmdm_check_demo" ->
            rmdm_check(risks, thresholds.gamma1, thresholds.gamma2).veto
      [] horizon.fn = "hrai_check" ->
            hra_accumulation_check(risks, thresholds.theta).veto
      [] horizon.fn = "hra_accumulation_check" ->
            hrai_check(risks, thresholds.theta).veto
      [] horizon.fn = "long_horizon_guard" ->
            long_horizon_guard_demo(risks, thresholds.theta, thresholds.gamma1,
                                    thresholds.gamma2).veto
      [] horizon.fn = "long_horizon_guard_demo" ->
            long_horizon_guard(risks, thresholds.gamma1, thresholds.gamma2,
                               thresholds.theta).veto

\* C27: the harness and the demo return the same veto flag for every
\* trajectory and all thresholds: the two guards, the two rmdm_check, and
\* hrai_check against hra_accumulation_check.
C27_HorizonImplementationsAgree ==
    horizon.fn # "none" => horizon.out.veto = CounterpartVeto

\* The same for the thetas that are not negative and for the trajectories
\* that are not empty.
HorizonImplementationsAgreeOnMass ==
    (thresholds.theta >= 0 \/ risks # <<>>) => C27_HorizonImplementationsAgree

\* the first differences of the trajectory are all at most 0
NeverIncreases == \A i \in 1..(Len(risks) - 1) : risks[i + 1] <= risks[i]

\* C29, as stated: with gamma1 and gamma2 not negative, rmdm_check does not
\* veto a trajectory whose values never increase.
C29_FallingNeverVetoed ==
    (RmdmCalled /\ thresholds.gamma1 >= 0 /\ thresholds.gamma2 >= 0 /\ NeverIncreases)
        => ~horizon.out.veto

\* C29, amended: with gamma1 and gamma2 not negative, a trajectory whose
\* values never increase does not breach the gradient threshold, and
\* rmdm_check vetoes it exactly when it has at least 3 points and some second
\* difference is above gamma2, as when a fall slows down or stops.
C29_FallingVetoedOnlyByAcceleration ==
    (RmdmCalled /\ thresholds.gamma1 >= 0 /\ thresholds.gamma2 >= 0 /\ NeverIncreases)
        => /\ horizon.out.max_d1 <= thresholds.gamma1
           /\ horizon.out.veto <=> (Len(risks) >= 3 /\ AccelerationBreach)

\* 1.0, 0.0, 0.0 falls and is vetoed for its second difference of 1.0
C29_Witness ==
    /\ RmdmCalled
    /\ thresholds.gamma1 >= 0
    /\ thresholds.gamma2 >= 0
    /\ risks = <<40, 0, 0>>
    /\ horizon.out.veto

\* the guard that was called, applied to another trajectory
GuardOn(rs) ==
    IF horizon.fn = "long_horizon_guard"
    THEN long_horizon_guard(rs, thresholds.gamma1, thresholds.gamma2, thresholds.theta)
    ELSE long_horizon_guard_demo(rs, thresholds.theta, thresholds.gamma1,
                                 thresholds.gamma2)

\* C28: with the thresholds fixed, a trajectory that long_horizon_guard
\* vetoes is still vetoed after a value in [0, 1] is appended to it, and so
\* after any number of them.
C28_VetoSurvivesAppend ==
    (GuardCalled /\ horizon.out.veto) =>
        \A v \in RiskValues, w \in RiskValues :
            /\ GuardOn(Append(risks, v)).veto
            /\ GuardOn(risks \o <<v, w>>).veto

\* a trajectory vetoed for its rise alone, which a flat tail does not clear
C28_Witness ==
    /\ GuardCalled
    /\ horizon.out.veto
    /\ horizon.out.rmdm.veto
    /\ ~horizon.out.hrai.veto
    /\ Len(risks) = 3
    /\ GuardOn(risks \o <<0, 0>>).veto

(***************************************************************************)
(* choose_action and the order of its candidates, under KernelSpec.        *)
(***************************************************************************)
\* the candidate list in every order
Reorderings ==
    LET n == Len(candidate_actions)
        perms == {p \in [1..n -> 1..n] : \A i, j \in 1..n : p[i] = p[j] => i = j}
    IN  {[i \in 1..n |-> candidate_actions[p[i]]] : p \in perms}

\* C30: a call on a non-empty list returns the action that it returns for
\* every other order of the same candidates, whether or not their names are
\* unique.
C30_OrderIndependent ==
    outcome.kind = "return" =>
        \A cands \in Reorderings :
            choose_action(cands, safe_state).outcome = outcome

\* The same for the lists in which two different candidates never have both
\* the same score and the same name.
OrderIndependentWhenKeysDiffer ==
    (\A c \in Candidates, d \in Candidates :
        (c # d) => (StrictlyBefore(c, d) \/ StrictlyBefore(d, c)))
        => C30_OrderIndependent

\* choose_action leaves the caller's list as it was.
CandidateListUnchanged == [][candidate_actions' = candidate_actions]_vars

=============================================================================
